---------------------------- MODULE Spec2Model ----------------------------
(***************************************************************************)
(* Model of navidrome's folder producer (scanner2/produce_folders.go):    *)
(* the directory reader fullReadDir, the directory loader loadDir, the    *)
(* post-order tree walker walkFolder / walkDirTree and the producer       *)
(* produceFolders with its goroutines and channels.                        *)
(*                                                                         *)
(* File names are sequences of one-character strings, a path is a         *)
(* sequence of names, an error is Nil or a one-element sequence holding    *)
(* its message (err.Error()).                                              *)
(***************************************************************************)
EXTENDS Integers, Sequences, FiniteSets, TLC

VARIABLES
    cancelled,   \* ctx.Done() is closed / ctx.Err() != nil
    rdr,         \* one call of fullReadDir on a directory handle, taken alone
    zip,         \* one call of ZipAlbum or ZipPlaylist of the archiver, taken alone
    disk,        \* which of the filesystems the libraries are on
    fullRescan,  \* the fullRescan argument of produceFolders
    ctxGo,       \* the goroutine of lines 22-32: index of the next library, closed flag
    scanCtxChan, \* buffered channel of scan contexts (libraries), capacity len(libs)
    rodCtx,      \* goroutine of pl.ReadOrDone(ctx, scanCtxChan)
    prod,        \* the producer function of lines 33-48
    walker,      \* per library: the goroutine of walkDirTree and its walkFolder stack
    rodOut,      \* per library: goroutine of pl.ReadOrDone(ctx, outputChan)
    numFolders,  \* per library: scanCtx.numFolders
    sink,        \* the entries handed to put, in order
    hist         \* history: sends, loads and calls made so far

vars == <<cancelled, rdr, zip, disk, fullRescan, ctxGo, scanCtxChan, rodCtx, prod, walker,
          rodOut, numFolders, sink, hist>>

scanVars == <<zip, disk, fullRescan, ctxGo, scanCtxChan, rodCtx, prod, walker, rodOut,
              numFolders, sink, hist>>

\* all but the archiver's
nonZipVars == <<cancelled, rdr, disk, fullRescan, ctxGo, scanCtxChan, rodCtx, prod,
                walker, rodOut, numFolders, sink, hist>>

----------------------------------------------------------------------------
(* Bounds of the model *)

\* longest list of chunks a directory handle hands out before it is exhausted
MaxChunks == 2
\* longest cycle of error values a directory handle answers with
MaxErrCycle == 2
\* the count of ReadDir calls saturates here
MaxReads == 4

----------------------------------------------------------------------------
(* Strings *)

\* byte value of the characters used in names (Go compares strings bytewise)
Code ==
    [c \in {"$", ".", "3", "A", "B", "C", "D", "E", "L", "U", "a", "b", "c",
            "d", "g", "h", "j", "m", "n", "p", "s", "t", "u"} |->
        CASE c = "$" -> 36 [] c = "." -> 46 [] c = "3" -> 51
          [] c = "A" -> 65 [] c = "B" -> 66 [] c = "C" -> 67 [] c = "D" -> 68
          [] c = "E" -> 69 [] c = "L" -> 76 [] c = "U" -> 85 [] c = "d" -> 100
          [] c = "a" -> 97 [] c = "b" -> 98 [] c = "c" -> 99 [] c = "g" -> 103
          [] c = "h" -> 104 [] c = "j" -> 106 [] c = "m" -> 109
          [] c = "n" -> 110 [] c = "p" -> 112 [] c = "s" -> 115
          [] c = "t" -> 116 [] c = "u" -> 117]

RECURSIVE StrLess(_, _)
\* a < b on Go strings: lexicographic on bytes, a proper prefix is smaller
StrLess(a, b) ==
    IF b = <<>> THEN FALSE
    ELSE IF a = <<>> THEN TRUE
    ELSE IF Code[Head(a)] < Code[Head(b)] THEN TRUE
    ELSE IF Code[Head(a)] > Code[Head(b)] THEN FALSE
    ELSE StrLess(Tail(a), Tail(b))

\* strings.HasPrefix(s, p)
HasPrefix(s, p) ==
    /\ Len(s) >= Len(p)
    /\ SubSeq(s, 1, Len(p)) = p

\* strings.HasSuffix(s, p)
HasSuffix(s, p) ==
    /\ Len(s) >= Len(p)
    /\ SubSeq(s, Len(s) - Len(p) + 1, Len(s)) = p

----------------------------------------------------------------------------
(* Directory reader: fullReadDir *)

Nil == <<>>

\* err.Error()
ErrorStr(err) == err[1]

RECURSIVE InsertByName(_, _)
InsertByName(e, s) ==
    IF s = <<>> THEN <<e>>
    ELSE IF StrLess(e, Head(s)) THEN <<e>> \o s
    ELSE <<Head(s)>> \o InsertByName(e, Tail(s))

\* mutant: the entries are returned in the order they were read in
SortByName_None(s) == s

RECURSIVE SortByName(_)
\* sort.Slice(allEntries, func(i, j) { return allEntries[i].Name() < allEntries[j].Name() })
SortByName(s) ==
    IF s = <<>> THEN <<>>
    ELSE InsertByName(s[Len(s)], SortByName(SubSeq(s, 1, Len(s) - 1)))

\* var allEntries []fs.DirEntry; var prevErrStr = ""
ReaderStart == [allEntries |-> <<>>, prevErrStr |-> "", returned |-> FALSE,
                result |-> <<>>]

\* mutant: the repeated error is detected before the entries that came with
\* it are appended
ReadDirPass_ChecksFirst(st, isCancelled, entries, err) ==
    IF isCancelled
    THEN [st EXCEPT !.returned = TRUE, !.result = <<>>]
    ELSE IF err # Nil /\ st.prevErrStr = ErrorStr(err)
    THEN [st EXCEPT !.returned = TRUE, !.result = SortByName(st.allEntries)]
    ELSE LET all == st.allEntries \o entries IN
         IF err = Nil
         THEN [st EXCEPT !.allEntries = all, !.returned = TRUE,
                         !.result = SortByName(all)]
         ELSE [st EXCEPT !.allEntries = all, !.prevErrStr = ErrorStr(err)]

\* one pass of the for loop of fullReadDir, the directory handle answering
\* ReadDir(-1) with (entries, err); the sort and return follow a break
ReadDirPass(st, isCancelled, entries, err) ==
    IF isCancelled
    THEN [st EXCEPT !.returned = TRUE, !.result = <<>>]
    ELSE LET all == st.allEntries \o entries IN
         IF err = Nil \/ st.prevErrStr = ErrorStr(err)
         THEN [st EXCEPT !.allEntries = all, !.returned = TRUE,
                         !.result = SortByName(all)]
         ELSE [st EXCEPT !.allEntries = all, !.prevErrStr = ErrorStr(err)]

----------------------------------------------------------------------------
(* Directory handles: what dir.ReadDir(-1) answers, call after call *)

\* the k-th call (k = calls made so far) hands out the next chunk of entries,
\* nothing once the chunks are exhausted, and the next error of the cycle
HandleEntries(h, ci) == IF ci < Len(h.chunks) THEN h.chunks[ci + 1] ELSE <<>>
HandleErr(h, ei) == h.errs[ei + 1]
NextChunk(h, ci) == IF ci < Len(h.chunks) THEN ci + 1 ELSE ci
NextErr(h, ei) == (ei + 1) % Len(h.errs)

\* a directory handle in use: the handle, how far its chunks and its error
\* cycle have been consumed
HandleStart(h) == [h |-> h, ci |-> 0, ei |-> 0]

\* the handle after one more ReadDir call
HandleAdvance(hs) ==
    [hs EXCEPT !.ci = NextChunk(hs.h, hs.ci), !.ei = NextErr(hs.h, hs.ei)]

----------------------------------------------------------------------------
(* fullReadDir taken alone, on every small directory handle *)

EntryNames == {<<"a">>, <<"b">>, <<"a", "b">>}
Chunks == {<<>>} \cup {<<n>> : n \in EntryNames}
              \cup {<<<<"b">>, <<"a">>>>, <<<<"a", "b">>, <<"a">>>>}
ErrValues == {Nil, <<"">>, <<"EIO">>, <<"ESTALE">>}

SeqsUpTo(S, n) == UNION {[1..k -> S] : k \in 0..n}

Handles ==
    {[chunks |-> c, errs |-> e] :
        c \in SeqsUpTo(Chunks, MaxChunks),
        e \in SeqsUpTo(ErrValues, MaxErrCycle) \ {<<>>}}

RdrIdle == [hs |-> HandleStart([chunks |-> <<>>, errs |-> <<Nil>>]),
            st |-> ReaderStart, calls |-> 0, delivered |-> <<>>,
            byCancel |-> FALSE]

RdrInit ==
    /\ cancelled \in BOOLEAN
    /\ \E h \in Handles : rdr = [RdrIdle EXCEPT !.hs = HandleStart(h)]

\* one pass of the loop of fullReadDir (lines 158-173, then 174-175)
RdrPass ==
    /\ ~rdr.st.returned
    /\ LET entries == HandleEntries(rdr.hs.h, rdr.hs.ci)
           err == HandleErr(rdr.hs.h, rdr.hs.ei)
       IN  rdr' = IF cancelled
                  THEN [rdr EXCEPT
                          !.st = ReadDirPass(rdr.st, TRUE, entries, err),
                          !.byCancel = TRUE]
                  ELSE [rdr EXCEPT
                          !.st = ReadDirPass(rdr.st, FALSE, entries, err),
                          !.hs = HandleAdvance(rdr.hs),
                          !.calls = IF @ < MaxReads THEN @ + 1 ELSE @,
                          !.delivered = @ \o entries]
    /\ UNCHANGED cancelled
    /\ UNCHANGED scanVars

\* the context is cancelled while fullReadDir runs
RdrCancel ==
    /\ ~cancelled
    /\ ~rdr.st.returned
    /\ cancelled' = TRUE
    /\ UNCHANGED rdr
    /\ UNCHANGED scanVars

RdrNext == RdrPass \/ RdrCancel
----------------------------------------------------------------------------
(* The libraries and the filesystem they are scanned on *)

\* latest timestamp the store may hold for a folder
MaxTime == 1
TimeVals == 0..MaxTime

Front(s) == SubSeq(s, 1, Len(s) - 1)
Last(s) == s[Len(s)]

\* libs []model.Library, by index; lib.Path of each
Libs == {1, 2}
LibOrder == <<1, 2>>
LibPath(l) == IF l = 1 THEN <<<<"m">>>> ELSE <<<<"n">>>>

nA == <<"A">>
nB == <<"B">>
nTrack == <<"t", ".", "m", "p", "3">>
nSong == <<"s", ".", "m", "p", "3">>
nCover == <<"c", ".", "j", "p", "g">>
nList == <<"u", ".", "m", "3", "u">>

\* consts.SkipScanFile
SkipScanFile == <<".", "n", "d", "i", "g", "n", "o", "r", "e">>

Plain(names) == [chunks |-> <<names>>, errs |-> <<Nil>>]

FileNode(mt, infoFails) ==
    [kind |-> "file", mtime |-> mt, target |-> <<>>, statFails |-> {FALSE},
     openFails |-> {FALSE}, infoFails |-> infoFails, handles |-> {}]

DirNode(mt, statFails, openFails, handles) ==
    [kind |-> "dir", mtime |-> mt, target |-> <<>>, statFails |-> statFails,
     openFails |-> openFails, infoFails |-> {FALSE}, handles |-> handles]

\* a symbolic link to the path target
LinkNode(target) ==
    [kind |-> "symlink", mtime |-> 0, target |-> target, statFails |-> {FALSE},
     openFails |-> {FALSE}, infoFails |-> {FALSE}, handles |-> {}]

\* a tree: for every path its node; a failure set {FALSE, TRUE} marks a call
\* that may fail, handles are the answers ReadDir may give on the directory
FS1 ==
    LET m == <<<<"m">>>>
        n == <<<<"n">>>>
    IN  (m :> DirNode(0, {FALSE}, {FALSE, TRUE}, {Plain(<<nSong>>)}))
     @@ (m \o <<nSong>> :> FileNode(1, {FALSE}))
     @@ (n :> DirNode(1, {FALSE}, {FALSE}, {Plain(<<nA>>)}))
     @@ (n \o <<nA>> :> DirNode(1, {FALSE}, {FALSE}, {Plain(<<nCover, nB>>)}))
     @@ (n \o <<nA, nCover>> :> FileNode(0, {FALSE, TRUE}))
     @@ (n \o <<nA, nB>> :>
            DirNode(0, {FALSE, TRUE}, {FALSE},
                {Plain(<<nList, nTrack>>),
                 [chunks |-> <<<<nList>>, <<nTrack>>>>, errs |-> <<<<"EIO">>>>],
                 [chunks |-> <<<<nList>>>>, errs |-> <<<<"EIO">>, Nil>>]}))
     @@ (n \o <<nA, nB, nTrack>> :> FileNode(1, {FALSE}))
     @@ (n \o <<nA, nB, nList>> :> FileNode(0, {FALSE}))

nHidden == <<".", "h">>
nDots == <<".", ".", "D">>
nMarked == <<"d", ".", "m", "p", "3">>
nLocked == <<"U">>
nEmpty == <<"E">>
nLink == <<"L">>

\* a tree with a hidden directory, one whose name starts with two dots and
\* that holds a link back to itself, one holding the marker file, one that
\* cannot be opened, and an empty one
FS2 ==
    LET m == <<<<"m">>>>
        n == <<<<"n">>>>
    IN  (m :> DirNode(0, {FALSE}, {FALSE},
                {Plain(<<nSong, nMarked, nLocked, nEmpty, nHidden, nDots>>)}))
     @@ (m \o <<nSong>> :> FileNode(0, {FALSE}))
     @@ (m \o <<nHidden>> :> DirNode(1, {FALSE}, {FALSE}, {Plain(<<nTrack>>)}))
     @@ (m \o <<nHidden, nTrack>> :> FileNode(1, {FALSE}))
     @@ (m \o <<nDots>> :>
            DirNode(0, {FALSE}, {FALSE}, {Plain(<<nTrack, nLink>>)}))
     @@ (m \o <<nDots, nTrack>> :> FileNode(1, {FALSE, TRUE}))
     @@ (m \o <<nDots, nLink>> :> LinkNode(m \o <<nDots>>))
     @@ (m \o <<nMarked>> :> DirNode(1, {FALSE}, {FALSE}, {Plain(<<nB, SkipScanFile>>)}))
     @@ (m \o <<nMarked, SkipScanFile>> :> FileNode(0, {FALSE}))
     @@ (m \o <<nMarked, nB>> :> DirNode(1, {FALSE}, {FALSE}, {Plain(<<>>)}))
     @@ (m \o <<nLocked>> :> DirNode(1, {FALSE}, {TRUE}, {Plain(<<>>)}))
     @@ (m \o <<nEmpty>> :> DirNode(1, {FALSE}, {FALSE}, {Plain(<<>>)}))
     @@ (n :> DirNode(1, {FALSE}, {FALSE}, {Plain(<<>>)}))

\* a small tree: a root with a file and an empty subdirectory, whose reads
\* may fail with changing errors, and an empty root
FS3 ==
    LET m == <<<<"m">>>>
        n == <<<<"n">>>>
    IN  (m :> DirNode(1, {FALSE}, {FALSE}, {Plain(<<nSong, nA>>)}))
     @@ (m \o <<nSong>> :> FileNode(1, {FALSE}))
     @@ (m \o <<nA>> :>
            DirNode(1, {FALSE}, {FALSE},
                {Plain(<<>>),
                 [chunks |-> <<>>, errs |-> <<<<"EIO">>, <<"ESTALE">>>>]}))
     @@ (n :> DirNode(1, {FALSE}, {FALSE}, {Plain(<<>>)}))

Disks == {1, 2}

\* the filesystem the libraries are on
FS == IF disk = 1 THEN FS1 ELSE IF disk = 2 THEN FS2 ELSE FS3

\* scanCtx.getLastUpdatedInDB(folder.id): the update times the store may hold
\* for a folder; the folders of library 1 and of the second and third tree
\* were last recorded at time 0
StoredTimes(dirPath) ==
    IF disk = 1 /\ dirPath[1] = LibPath(2)[1] THEN TimeVals ELSE {0}

\* how many symbolic links os.Stat and os.Open follow before they give up
\* with ELOOP
MaxLinks == 1

RECURSIVE Resolve(_)
\* the path with its symbolic links followed, as os.Stat and os.Open do
Resolve(p) ==
    IF p = <<>> THEN <<>>
    ELSE LET q == Append(Resolve(Front(p)), Last(p)) IN
         IF q \in DOMAIN FS /\ FS[q].kind = "symlink"
         THEN Resolve(FS[q].target)
         ELSE q

RECURSIVE Follows(_)
\* the symbolic links followed on the way
Follows(p) ==
    IF p = <<>> THEN 0
    ELSE LET q == Append(Resolve(Front(p)), Last(p)) IN
         IF q \in DOMAIN FS /\ FS[q].kind = "symlink"
         THEN Follows(Front(p)) + 1 + Follows(FS[q].target)
         ELSE Follows(Front(p))

\* os.Stat(p) and os.Open(p) find the file
Exists(p) == Resolve(p) \in DOMAIN FS /\ Follows(p) <= MaxLinks

\* filepath.Join(dirPath, name)
Join(dirPath, name) == Append(dirPath, name)

\* filepath.Clean(path): empty and "." components are dropped
Clean(path) == SelectSeq(path, LAMBDA c : c # <<>> /\ c # <<".">>)

\* the names actually in directory p
Listing(p) ==
    LET at == Resolve(p) IN
    {Last(q) : q \in {x \in DOMAIN FS : Len(x) = Len(at) + 1 /\ Front(x) = at}}
----------------------------------------------------------------------------
(* Path classifier *)

\* runtime.GOOS
GOOS == "linux"

RecycleBin == <<"$", "R", "E", "C", "Y", "C", "L", "E", ".", "B", "I", "N">>

\* strings.ToUpper on the letters of the names in use
Upper(c) ==
    CASE c = "a" -> "A" [] c = "b" -> "B" [] c = "c" -> "C" [] c = "g" -> "G"
      [] c = "h" -> "H" [] c = "j" -> "J" [] c = "m" -> "M" [] c = "n" -> "N"
      [] c = "p" -> "P" [] c = "s" -> "S" [] c = "t" -> "T" [] c = "u" -> "U"
      [] OTHER -> c

\* strings.EqualFold(a, b)
EqualFold(a, b) ==
    /\ Len(a) = Len(b)
    /\ \A i \in 1..Len(a) : Upper(a[i]) = Upper(b[i])

\* model.IsAudioFile, model.IsImageFile, model.IsValidPlaylist: by extension
IsAudioFile(name) == HasSuffix(name, <<".", "m", "p", "3">>)
IsImageFile(name) == HasSuffix(name, <<".", "j", "p", "g">>)
IsValidPlaylist(name) == HasSuffix(name, <<".", "m", "3", "u">>)

\* isDirOrSymlinkToDir(baseDir, dirEnt): the answer and the error
isDirOrSymlinkToDir(baseDir, name) ==
    LET node == FS[Join(Resolve(baseDir), name)]
        to == Resolve(Join(baseDir, name))
    IN  IF node.kind = "dir" THEN [isDir |-> TRUE, err |-> Nil]
        ELSE IF node.kind # "symlink" THEN [isDir |-> FALSE, err |-> Nil]
        ELSE IF to \notin DOMAIN FS THEN [isDir |-> FALSE, err |-> <<"ENOENT">>]
        ELSE IF Follows(Join(baseDir, name)) > MaxLinks
             THEN [isDir |-> FALSE, err |-> <<"ELOOP">>]
        ELSE [isDir |-> FS[to].kind = "dir", err |-> Nil]

\* mutant: every name that starts with a dot is ignored
isDirIgnored_AnyDot(baseDir, name) ==
    IF HasPrefix(name, <<".">>) THEN TRUE
    ELSE IF GOOS = "windows" /\ EqualFold(name, RecycleBin) THEN TRUE
    ELSE Exists(Join(Join(baseDir, name), SkipScanFile))

\* isDirIgnored(baseDir, dirEnt)
isDirIgnored(baseDir, name) ==
    IF HasPrefix(name, <<".">>) /\ ~HasPrefix(name, <<".", ".">>) THEN TRUE
    ELSE IF GOOS = "windows" /\ EqualFold(name, RecycleBin) THEN TRUE
    ELSE Exists(Join(Join(baseDir, name), SkipScanFile))

\* the answers isDirReadable(ctx, baseDir, dirEnt) may give: os.Open fails or not
isDirReadable(baseDir, name) ==
    LET to == Resolve(Join(baseDir, name)) IN
    IF ~Exists(Join(baseDir, name)) THEN {FALSE}
    ELSE {~f : f \in FS[to].openFails}

----------------------------------------------------------------------------
(* Folder entries and loadDir *)

\* folder = &folderEntry{scanCtx: scanCtx, path: dirPath}, lines 94-98
NewFolder(l, dirPath, upd) ==
    [lib |-> l, path |-> dirPath, updTime |-> upd, modTime |-> 0,
     audioFiles |-> {}, imageFiles |-> {}, playlists |-> <<>>,
     imagesUpdatedAt |-> 0]

\* folderEntry.isOutdated(): the recorded update time is before modTime
isOutdated(folder) == folder.updTime < folder.modTime

\* lines 132-145: a non-directory entry with modification time mt is
\* accounted for and classified
Classify(folder, name, mt) ==
    LET f == [folder EXCEPT !.modTime = IF mt > @ THEN mt ELSE @] IN
    IF IsAudioFile(name) THEN [f EXCEPT !.audioFiles = @ \cup {name}]
    ELSE IF IsValidPlaylist(name) THEN [f EXCEPT !.playlists = Append(@, name)]
    ELSE IF IsImageFile(name)
         THEN [f EXCEPT !.imageFiles = @ \cup {name},
                        !.imagesUpdatedAt = IF mt > @ THEN mt ELSE @]
    ELSE f

\* a call of walkFolder: where it is in lines 66-91 and in its loadDir
\* pc: "load" (94-112), "read" (fullReadDir), "entries" (114-147),
\*     "walk" (73-78), "send" (blocked in line 88)
NewFrame(l, dirPath) ==
    [path |-> dirPath, pc |-> "load", folder |-> NewFolder(l, dirPath, 0),
     children |-> <<>>, entries |-> <<>>, k |-> 1,
     hs |-> HandleStart(Plain(<<>>)), rd |-> ReaderStart]
----------------------------------------------------------------------------
(* The tree walker: walkDirTree, walkFolder, loadDir *)

Top(l) == walker[l].stack[Len(walker[l].stack)]

Running(l, pc) ==
    /\ walker[l].pc = "run"
    /\ Top(l).pc = pc

\* the walker of l with the top call of walkFolder replaced
WithTop(l, f) ==
    [walker EXCEPT ![l].stack = [@ EXCEPT ![Len(@)] = f]]

\* the top call of walkFolder returns (nil, in every case); with the return of
\* the root call the goroutine of walkDirTree ends (lines 57-62) and its
\* deferred close(results) runs
Return(l) ==
    [walker EXCEPT ![l].stack = Front(@),
                   ![l].pc = IF Len(walker[l].stack) = 1 THEN "done" ELSE "run"]

\* mutant: the error of loadDir is returned, and with it every caller up to
\* walkDirTree returns (lines 75-77, 57-60)
Skip_Propagates(l) == [walker EXCEPT ![l] = [pc |-> "done", stack |-> <<>>]]

\* lines 68-71: loadDir returned an error; it is logged and walkFolder
\* returns nil
Skip(l) == Return(l)

\* loadDir, lines 94-112: the recorded update time, os.Stat, os.Open
LoadBegin(l) ==
    /\ Running(l, "load")
    /\ LET f == Top(l)
           at == Resolve(f.path)
       IN  \/ /\ \/ ~Exists(f.path)
                 \/ TRUE \in FS[at].statFails
                 \/ TRUE \in FS[at].openFails
              /\ walker' = Skip(l)
           \/ /\ Exists(f.path)
              /\ FALSE \in FS[at].statFails
              /\ FALSE \in FS[at].openFails
              /\ \E upd \in StoredTimes(f.path), h \in FS[at].handles :
                   walker' = WithTop(l,
                       [f EXCEPT !.folder = [NewFolder(l, f.path, upd)
                                                EXCEPT !.modTime = FS[at].mtime],
                                 !.hs = HandleStart(h),
                                 !.pc = "read"])
    /\ UNCHANGED <<cancelled, rdr, zip, disk, fullRescan, ctxGo, scanCtxChan, rodCtx, prod,
                   rodOut, numFolders, sink, hist>>

\* one pass of the loop of fullReadDir(ctx, dir) called in line 114
ReadPass(l) ==
    /\ Running(l, "read")
    /\ LET f == Top(l)
           rd == ReadDirPass(f.rd, cancelled, HandleEntries(f.hs.h, f.hs.ci),
                             HandleErr(f.hs.h, f.hs.ei))
       IN  walker' = WithTop(l,
               [f EXCEPT !.rd = rd,
                         !.hs = IF cancelled THEN @ ELSE HandleAdvance(@),
                         !.entries = rd.result,
                         !.k = 1,
                         !.pc = IF rd.returned THEN "entries" ELSE "read"])
    /\ UNCHANGED <<cancelled, rdr, zip, disk, fullRescan, ctxGo, scanCtxChan, rodCtx, prod,
                   rodOut, numFolders, sink, hist>>

\* one pass of the loop of lines 114-147 over the entries read
LoadEntry(l) ==
    /\ Running(l, "entries")
    /\ Top(l).k <= Len(Top(l).entries)
    /\ LET f == Top(l)
           name == f.entries[f.k]
           d == isDirOrSymlinkToDir(f.path, name)
           node == FS[Join(Resolve(f.path), name)]
           next == [f EXCEPT !.k = @ + 1]
       IN  IF cancelled THEN walker' = Skip(l)
           ELSE IF d.err # Nil THEN walker' = WithTop(l, next)
           ELSE \/ /\ d.isDir
                   /\ ~isDirIgnored(f.path, name)
                   /\ TRUE \in isDirReadable(f.path, name)
                   /\ walker' = WithTop(l,
                          [next EXCEPT !.children = Append(@, Join(f.path, name))])
                \/ /\ \/ ~d.isDir
                      \/ isDirIgnored(f.path, name)
                      \/ FALSE \in isDirReadable(f.path, name)
                   /\ \E infoFails \in node.infoFails :
                        walker' = IF infoFails THEN Skip(l)
                                  ELSE WithTop(l,
                                      [next EXCEPT !.folder =
                                          Classify(@, name, node.mtime)])
    /\ UNCHANGED <<cancelled, rdr, zip, disk, fullRescan, ctxGo, scanCtxChan, rodCtx, prod,
                   rodOut, numFolders, sink, hist>>

\* loadDir returns its folder and children (line 148); scanCtx.numFolders.Add(1)
LoadDone(l) ==
    /\ Running(l, "entries")
    /\ Top(l).k > Len(Top(l).entries)
    /\ walker' = WithTop(l, [Top(l) EXCEPT !.pc = "walk", !.k = 1])
    /\ numFolders' = [numFolders EXCEPT ![l] = @ + 1]
    /\ hist' = [hist EXCEPT !.loaded = @ \cup
                   {[folder |-> Top(l).folder, children |-> Top(l).children]}]
    /\ UNCHANGED <<cancelled, rdr, zip, disk, fullRescan, ctxGo, scanCtxChan, rodCtx, prod,
                   rodOut, sink>>
\* mutant: || for &&
skipFolder_Or(folder) == ~isOutdated(folder) \/ ~fullRescan

\* mutant: the full-rescan flag is not consulted
skipFolder_IgnoresRescan(folder) == ~isOutdated(folder)

\* line 80: if !folder.isOutdated() && !scanCtx.fullRescan { return nil }
skipFolder(folder) == ~isOutdated(folder) /\ ~fullRescan

\* mutant: the folder is sent before its children are walked
WalkChild_SendsFirst(l) ==
    /\ Running(l, "walk")
    /\ Top(l).k <= Len(Top(l).children)
    /\ LET f == Top(l) IN
       /\ walker' = [WithTop(l, [f EXCEPT !.k = @ + 1]) EXCEPT
                        ![l].stack = Append(@, NewFrame(l, f.children[f.k]))]
       /\ hist' = [hist EXCEPT
                     !.visited = @ \cup {f.children[f.k]},
                     !.sent[l] = IF f.k = 1 /\ ~skipFolder(f.folder)
                                 THEN Append(@, [f.folder EXCEPT !.path = Clean(f.path)])
                                 ELSE @]
    /\ UNCHANGED <<cancelled, rdr, zip, disk, fullRescan, ctxGo, scanCtxChan, rodCtx, prod,
                   rodOut, numFolders, sink>>

\* lines 73-78: walkFolder is called on the next child
WalkChild(l) ==
    /\ Running(l, "walk")
    /\ Top(l).k <= Len(Top(l).children)
    /\ LET f == Top(l) IN
       /\ walker' = [WithTop(l, [f EXCEPT !.k = @ + 1]) EXCEPT
                        ![l].stack = Append(@, NewFrame(l, f.children[f.k]))]
       /\ hist' = [hist EXCEPT !.visited = @ \cup {f.children[f.k]}]
    /\ UNCHANGED <<cancelled, rdr, zip, disk, fullRescan, ctxGo, scanCtxChan, rodCtx, prod,
                   rodOut, numFolders, sink>>

\* mutant: results has room for the entry and the send returns at once
Emit_Buffered(l) ==
    /\ Running(l, "walk")
    /\ Top(l).k > Len(Top(l).children)
    /\ walker' = Return(l)
    /\ IF skipFolder(Top(l).folder)
       THEN UNCHANGED hist
       ELSE LET folder == [Top(l).folder EXCEPT !.path = Clean(Top(l).path)] IN
            hist' = [hist EXCEPT !.sent[l] = Append(@, folder),
                                 !.lateSend = @ \/ cancelled]
    /\ UNCHANGED <<cancelled, rdr, zip, disk, fullRescan, ctxGo, scanCtxChan, rodCtx, prod,
                   rodOut, numFolders, sink>>

\* lines 80-88: after the children, the folder is skipped or sent on results
Emit(l) ==
    /\ Running(l, "walk")
    /\ Top(l).k > Len(Top(l).children)
    /\ IF skipFolder(Top(l).folder)
       THEN /\ walker' = Return(l)
            /\ UNCHANGED hist
       ELSE LET folder == [Top(l).folder EXCEPT !.path = Clean(Top(l).path)] IN
            /\ walker' = WithTop(l, [Top(l) EXCEPT !.folder = folder,
                                                   !.pc = "send"])
            /\ hist' = [hist EXCEPT !.sent[l] = Append(@, folder),
                                    !.lateSend = @ \/ cancelled]
    /\ UNCHANGED <<cancelled, rdr, zip, disk, fullRescan, ctxGo, scanCtxChan, rodCtx, prod,
                   rodOut, numFolders, sink>>

----------------------------------------------------------------------------
(* pl.ReadOrDone(ctx, outputChan): forwards results to the producer *)

NoVal == <<>>

\* outer select, case v, ok := <-in with ok: the walker's send completes
RodOutRecv(l) ==
    /\ rodOut[l].pc = "select"
    /\ Running(l, "send")
    /\ rodOut' = [rodOut EXCEPT ![l] = [pc |-> "fwd", val |-> Top(l).folder]]
    /\ walker' = Return(l)
    /\ hist' = [hist EXCEPT !.rcvd[l] = @ + 1]
    /\ UNCHANGED <<cancelled, rdr, zip, disk, fullRescan, ctxGo, scanCtxChan, rodCtx, prod,
                   numFolders, sink>>

\* outer select, case v, ok := <-in with !ok: results is closed
RodOutClosed(l) ==
    /\ rodOut[l].pc = "select"
    /\ walker[l].pc = "done"
    /\ rodOut' = [rodOut EXCEPT ![l].pc = "done"]
    /\ UNCHANGED <<cancelled, rdr, zip, disk, fullRescan, ctxGo, scanCtxChan, rodCtx, prod,
                   walker, numFolders, sink, hist>>

\* outer select, case <-ctx.Done(): return, closing the forwarded stream
RodOutCancelled(l) ==
    /\ rodOut[l].pc = "select"
    /\ cancelled
    /\ rodOut' = [rodOut EXCEPT ![l].pc = "done"]
    /\ UNCHANGED <<cancelled, rdr, zip, disk, fullRescan, ctxGo, scanCtxChan, rodCtx, prod,
                   walker, numFolders, sink, hist>>

\* inner select, case <-ctx.Done(): the value held is dropped
RodOutDrop(l) ==
    /\ rodOut[l].pc = "fwd"
    /\ cancelled
    /\ rodOut' = [rodOut EXCEPT ![l] = [pc |-> "select", val |-> NoVal]]
    /\ UNCHANGED <<cancelled, rdr, zip, disk, fullRescan, ctxGo, scanCtxChan, rodCtx, prod,
                   walker, numFolders, sink, hist>>
----------------------------------------------------------------------------
(* produceFolders: the context goroutine, the queue and the producer *)

\* mutant: return for continue when newScannerContext fails
CtxCreate_StopsOnError ==
    /\ ctxGo.next <= Len(LibOrder)
    /\ \/ /\ hist' = [hist EXCEPT !.failed = @ \cup {LibOrder[ctxGo.next]}]
          /\ ctxGo' = [ctxGo EXCEPT !.next = Len(LibOrder) + 1]
          /\ UNCHANGED scanCtxChan
       \/ /\ Len(scanCtxChan) < Len(LibOrder)
          /\ scanCtxChan' = Append(scanCtxChan, LibOrder[ctxGo.next])
          /\ ctxGo' = [ctxGo EXCEPT !.next = @ + 1]
          /\ hist' = [hist EXCEPT !.queued = Append(@, LibOrder[ctxGo.next])]
    /\ UNCHANGED <<cancelled, rdr, zip, disk, fullRescan, rodCtx, prod, walker, rodOut,
                   numFolders, sink>>

\* mutant: the queue is made with room for one context less
CtxQueue_SmallQueue ==
    /\ Len(scanCtxChan) < Len(LibOrder) - 1
    /\ scanCtxChan' = Append(scanCtxChan, LibOrder[ctxGo.next])
    /\ hist' = [hist EXCEPT !.queued = Append(@, LibOrder[ctxGo.next])]

\* line 30: scanCtxChan <- scanCtx on the channel made in line 21 with room
\* for len(libs) contexts; the send waits while the queue is full
CtxQueue ==
    /\ Len(scanCtxChan) < Len(LibOrder)
    /\ scanCtxChan' = Append(scanCtxChan, LibOrder[ctxGo.next])
    /\ hist' = [hist EXCEPT !.queued = Append(@, LibOrder[ctxGo.next])]

\* lines 24-31 for the next library: newScannerContext fails (continue) or
\* its context is queued
CtxCreate ==
    /\ ctxGo.next <= Len(LibOrder)
    /\ \/ /\ hist' = [hist EXCEPT !.failed = @ \cup {LibOrder[ctxGo.next]}]
          /\ UNCHANGED scanCtxChan
       \/ CtxQueue
    /\ ctxGo' = [ctxGo EXCEPT !.next = @ + 1]
    /\ UNCHANGED <<cancelled, rdr, zip, disk, fullRescan, rodCtx, prod, walker, rodOut,
                   numFolders, sink>>

\* line 23: defer close(scanCtxChan)
CtxClose ==
    /\ ctxGo.next > Len(LibOrder)
    /\ ~ctxGo.closed
    /\ ctxGo' = [ctxGo EXCEPT !.closed = TRUE]
    /\ UNCHANGED <<cancelled, rdr, zip, disk, fullRescan, scanCtxChan, rodCtx, prod, walker,
                   rodOut, numFolders, sink, hist>>

\* pl.ReadOrDone(ctx, scanCtxChan), outer select: a context is received
RodCtxRecv ==
    /\ rodCtx.pc = "select"
    /\ scanCtxChan # <<>>
    /\ rodCtx' = [pc |-> "fwd", val |-> Head(scanCtxChan)]
    /\ scanCtxChan' = Tail(scanCtxChan)
    /\ UNCHANGED <<cancelled, rdr, zip, disk, fullRescan, ctxGo, prod, walker, rodOut,
                   numFolders, sink, hist>>

\* outer select: the queue is closed and empty
RodCtxClosed ==
    /\ rodCtx.pc = "select"
    /\ scanCtxChan = <<>>
    /\ ctxGo.closed
    /\ rodCtx' = [rodCtx EXCEPT !.pc = "done"]
    /\ UNCHANGED <<cancelled, rdr, zip, disk, fullRescan, ctxGo, scanCtxChan, prod, walker,
                   rodOut, numFolders, sink, hist>>

\* outer select, case <-ctx.Done()
RodCtxCancelled ==
    /\ rodCtx.pc = "select"
    /\ cancelled
    /\ rodCtx' = [rodCtx EXCEPT !.pc = "done"]
    /\ UNCHANGED <<cancelled, rdr, zip, disk, fullRescan, ctxGo, scanCtxChan, prod, walker,
                   rodOut, numFolders, sink, hist>>

\* inner select, case <-ctx.Done(): the context held is dropped
RodCtxDrop ==
    /\ rodCtx.pc = "fwd"
    /\ cancelled
    /\ rodCtx' = [pc |-> "select", val |-> NoVal]
    /\ UNCHANGED <<cancelled, rdr, zip, disk, fullRescan, ctxGo, scanCtxChan, prod, walker,
                   rodOut, numFolders, sink, hist>>

\* lines 36-41: the producer receives a scan context; walkDirTree starts the
\* walker goroutine on lib.Path and the results are read through ReadOrDone
StartWalk ==
    /\ prod.pc = "recvCtx"
    /\ rodCtx.pc = "fwd"
    /\ LET l == rodCtx.val IN
       /\ rodCtx' = [pc |-> "select", val |-> NoVal]
       /\ prod' = [prod EXCEPT !.pc = "drain", !.cur = l]
       /\ walker' = [walker EXCEPT ![l] =
                        [pc |-> "run", stack |-> <<NewFrame(l, LibPath(l))>>]]
       /\ rodOut' = [rodOut EXCEPT ![l] = [pc |-> "select", val |-> NoVal]]
       /\ hist' = [hist EXCEPT !.visited = @ \cup {LibPath(l)},
                               !.overlap = @ \/ \E o \in Libs :
                                   walker[o].pc = "run"]
    /\ UNCHANGED <<cancelled, rdr, zip, disk, fullRescan, ctxGo, scanCtxChan, numFolders,
                   sink>>

\* lines 41-43: put(folder) for the next folder of the current library
Put ==
    /\ prod.pc = "drain"
    /\ rodOut[prod.cur].pc = "fwd"
    /\ sink' = Append(sink, rodOut[prod.cur].val)
    /\ rodOut' = [rodOut EXCEPT ![prod.cur] = [pc |-> "select", val |-> NoVal]]
    /\ UNCHANGED <<cancelled, rdr, zip, disk, fullRescan, ctxGo, scanCtxChan, rodCtx, prod,
                   walker, numFolders, hist>>

\* line 44: the stream of the current library has ended;
\* total += scanCtx.numFolders.Load()
Drained ==
    /\ prod.pc = "drain"
    /\ rodOut[prod.cur].pc = "done"
    /\ prod' = [prod EXCEPT !.pc = "recvCtx",
                            !.total = @ + numFolders[prod.cur]]
    /\ UNCHANGED <<cancelled, rdr, zip, disk, fullRescan, ctxGo, scanCtxChan, rodCtx, walker,
                   rodOut, numFolders, sink, hist>>

\* lines 46-47: the queue stream has ended; the total is logged, nil returned
Finish ==
    /\ prod.pc = "recvCtx"
    /\ rodCtx.pc = "done"
    /\ prod' = [prod EXCEPT !.pc = "done", !.ret = Nil]
    /\ UNCHANGED <<cancelled, rdr, zip, disk, fullRescan, ctxGo, scanCtxChan, rodCtx, walker,
                   rodOut, numFolders, sink, hist>>

\* the ambient context is cancelled
Cancel ==
    /\ ~cancelled
    /\ cancelled' = TRUE
    /\ UNCHANGED <<rdr, zip, disk, fullRescan, ctxGo, scanCtxChan, rodCtx, prod, walker,
                   rodOut, numFolders, sink, hist>>

----------------------------------------------------------------------------
(* The archiver (core/archiver.go): ZipAlbum and ZipPlaylist taken alone *)

\* most media files the store answers a query with
MaxFiles == 3

\* the media files of the store: two discs of album a, two files of album b
MediaFiles ==
    {[id |-> 1, album |-> "a", disc |-> 1, suffix |-> "flac"],
     [id |-> 2, album |-> "a", disc |-> 2, suffix |-> "flac"],
     [id |-> 3, album |-> "b", disc |-> 1, suffix |-> "flac"],
     [id |-> 4, album |-> "b", disc |-> 1, suffix |-> "ogg"]}

\* what the store may hold: the media files in query order, or the tracks of
\* the playlist
Stores == {s \in SeqsUpTo(MediaFiles, MaxFiles) :
              \A i, j \in 1..Len(s) : i # j => s[i] # s[j]}

\* no call of the archiver is under way
ZipIdle == [pc |-> "idle"]

\* a call ZipAlbum(ctx, id, format, bitrate, out) or ZipPlaylist(...) begins:
\* nothing written to out, no zip writer yet
ZipCall(kind, id, format, store) ==
    [pc |-> "load", kind |-> kind, id |-> id, format |-> format,
     store |-> store, mfs |-> <<>>, i |-> 1, attempts |-> <<>>, out |-> <<>>,
     failed |-> {}, closes |-> 0, ret |-> <<"pending">>]

\* the keys of s in the order they first occur, the key of an element being
\* its field key
GroupKeys(s, key) ==
    LET firsts == SelectSeq([i \in 1..Len(s) |-> i],
                     LAMBDA i : \A j \in 1..(i - 1) : s[j][key] # s[i][key])
    IN  [k \in 1..Len(firsts) |-> s[firsts[k]][key]]

\* slice.Group(s, keyFunc): the elements of each key, in the order of s
Group(s, key) ==
    LET keys == GroupKeys(s, key) IN
    [k \in 1..Len(keys) |-> SelectSeq(s, LAMBDA e : e[key] = keys[k])]

RECURSIVE Flatten(_)
Flatten(groups) ==
    IF groups = <<>> THEN <<>> ELSE Head(groups) \o Flatten(Tail(groups))

\* the loops of lines 62-71: the media files album by album, each with the
\* isMultDisc flag of its album (lines 63-64)
AlbumLoop(mfs) ==
    LET albums == Group(mfs, "album") IN
    Flatten([a \in 1..Len(albums) |->
        [k \in 1..Len(albums[a]) |->
            [mf |-> albums[a][k],
             isMultDisc |-> Len(Group(albums[a], "disc")) > 1]]])

\* albumFilename(mf, format, isMultDisc), lines 79-88
albumFilename(mf, format, isMultDisc) ==
    [dir |-> IF isMultDisc THEN <<mf.album, mf.disc>> ELSE <<mf.album>>,
     file |-> mf.id,
     ext |-> IF format # "raw" THEN format ELSE mf.suffix]

\* playlistFilename(mf, format, idx), lines 114-121
playlistFilename(mf, format, idx) ==
    [dir |-> <<>>, file |-> <<idx + 1, mf.id>>,
     ext |-> IF format # "raw" THEN format ELSE mf.suffix]

\* the calls of addFileToZip the loop makes, in order: media file and name
ZipPlan(kind, format, mfs) ==
    IF kind = "album"
    THEN LET loop == AlbumLoop(mfs) IN
         [k \in 1..Len(loop) |->
            [mf |-> loop[k].mf,
             name |-> albumFilename(loop[k].mf, format, loop[k].isMultDisc)]]
    ELSE [k \in 1..Len(mfs) |->
            [mf |-> mfs[k], name |-> playlistFilename(mfs[k], format, k - 1)]]

\* lines 34-41 and 91-95: the store answers the query, or fails
ZipLoad ==
    /\ zip.pc = "load"
    /\ \/ zip' = [zip EXCEPT !.pc = "done", !.ret = <<"load">>]
       \/ zip' = [zip EXCEPT
                    !.pc = "zip",
                    !.mfs = IF zip.kind = "album"
                            THEN SelectSeq(zip.store, LAMBDA mf : mf.album = zip.id)
                            ELSE zip.store]
    /\ UNCHANGED nonZipVars

\* what addFileToZip may meet: no error, CreateHeader fails, os.Open or
\* DoStream fails, io.Copy fails
AddOutcomes == {"ok", "header", "open", "copy"}

\* addFileToZip, lines 123-158, on the zip state z: the header is written
\* unless CreateHeader fails, the stream is opened and closed again (the
\* deferred r.Close()) unless opening fails, the data is copied whole unless
\* io.Copy fails; the error is returned
addFileToZip(z, call, outcome) ==
    [out |-> IF outcome = "header" THEN z.out
             ELSE IF outcome = "open"
                  THEN Append(z.out, [kind |-> "file", name |-> call.name, data |-> "none"])
             ELSE IF outcome = "copy"
                  THEN Append(z.out, [kind |-> "file", name |-> call.name, data |-> "part"])
             ELSE Append(z.out, [kind |-> "file", name |-> call.name, data |-> "whole"]),
     err |-> IF outcome = "ok" THEN Nil ELSE <<outcome>>]

\* mutant: the error of addFileToZip ends the loop
ZipAdd_StopsOnError ==
    /\ zip.pc = "zip"
    /\ zip.i <= Len(ZipPlan(zip.kind, zip.format, zip.mfs))
    /\ LET call == ZipPlan(zip.kind, zip.format, zip.mfs)[zip.i] IN
       \E outcome \in AddOutcomes :
          LET r == addFileToZip(zip, call, outcome) IN
          zip' = [zip EXCEPT
                    !.out = r.out,
                    !.attempts = Append(@, call.mf.id),
                    !.failed = IF r.err # Nil THEN @ \cup {call.mf.id} ELSE @,
                    !.i = IF r.err # Nil
                          THEN Len(ZipPlan(zip.kind, zip.format, zip.mfs)) + 1
                          ELSE @ + 1]
    /\ UNCHANGED nonZipVars

\* one pass of the loop of lines 67-70 or 103-106:
\* _ = a.addFileToZip(ctx, z, mf, format, bitrate, file)
ZipAdd ==
    /\ zip.pc = "zip"
    /\ zip.i <= Len(ZipPlan(zip.kind, zip.format, zip.mfs))
    /\ LET call == ZipPlan(zip.kind, zip.format, zip.mfs)[zip.i] IN
       \E outcome \in AddOutcomes :
          LET r == addFileToZip(zip, call, outcome) IN
          zip' = [zip EXCEPT
                    !.out = r.out,
                    !.attempts = Append(@, call.mf.id),
                    !.failed = IF r.err # Nil THEN @ \cup {call.mf.id} ELSE @,
                    !.i = @ + 1]
    /\ UNCHANGED nonZipVars

\* lines 72-76 and 107-111: err := z.Close(); return err
ZipClose ==
    /\ zip.pc = "zip"
    /\ zip.i > Len(ZipPlan(zip.kind, zip.format, zip.mfs))
    /\ \E err \in {Nil, <<"close">>} :
         zip' = [zip EXCEPT
                   !.pc = "done",
                   !.closes = @ + 1,
                   !.out = IF err = Nil
                           THEN Append(@, [kind |-> "directory", name |-> <<>>,
                                           data |-> "whole"])
                           ELSE @,
                   !.ret = err]
    /\ UNCHANGED nonZipVars

----------------------------------------------------------------------------
(* The specifications *)

ScanIdle ==
    /\ ctxGo = [next |-> 1, closed |-> FALSE]
    /\ scanCtxChan = <<>>
    /\ rodCtx = [pc |-> "select", val |-> NoVal]
    /\ prod = [pc |-> "recvCtx", cur |-> 0, total |-> 0, ret |-> <<"pending">>]
    /\ walker = [l \in Libs |-> [pc |-> "idle", stack |-> <<>>]]
    /\ rodOut = [l \in Libs |-> [pc |-> "none", val |-> NoVal]]
    /\ numFolders = [l \in Libs |-> 0]
    /\ sink = <<>>
    /\ hist = [sent |-> [l \in Libs |-> <<>>], loaded |-> {}, visited |-> {},
               failed |-> {}, lateSend |-> FALSE, overlap |-> FALSE,
               rcvd |-> [l \in Libs |-> 0], queued |-> <<>>]

\* produceFolders(ctx, ds, libs, fullRescan) has been called
Init ==
    /\ cancelled = FALSE
    /\ fullRescan \in BOOLEAN
    /\ disk \in Disks
    /\ rdr = RdrIdle
    /\ zip = ZipIdle
    /\ ScanIdle

WalkerStep(l) ==
    \/ LoadBegin(l) \/ ReadPass(l) \/ LoadEntry(l) \/ LoadDone(l)
    \/ WalkChild(l) \/ Emit(l)

ReadOrDoneStep(l) ==
    \/ RodOutRecv(l) \/ RodOutClosed(l) \/ RodOutCancelled(l) \/ RodOutDrop(l)

\* the goroutine of lines 22-32
ContextStep == CtxCreate \/ CtxClose

\* the goroutine of pl.ReadOrDone(ctx, scanCtxChan)
QueueReaderStep ==
    \/ RodCtxRecv \/ RodCtxClosed \/ RodCtxCancelled \/ RodCtxDrop

\* the producer function, its consumer put included
ProducerStep == StartWalk \/ Put \/ Drained \/ Finish

Next ==
    \/ ContextStep
    \/ QueueReaderStep
    \/ ProducerStep
    \/ \E l \in Libs : WalkerStep(l)
    \/ \E l \in Libs : ReadOrDoneStep(l)
    \/ Cancel

Spec == Init /\ [][Next]_vars

\* produceFolders has been called on libraries on the small tree
InitSmall ==
    /\ cancelled = FALSE
    /\ fullRescan \in BOOLEAN
    /\ disk = 3
    /\ rdr = RdrIdle
    /\ zip = ZipIdle
    /\ ScanIdle

\* the same goroutines on the small tree, only the context goroutine being
\* sure to be scheduled: the producer and its readers may stop at any point
FairSpecSmall == InitSmall /\ [][Next]_vars /\ WF_vars(ContextStep)

\* the same, every goroutine that can take a step being scheduled in the end
\* and put returning; the context may be cancelled or not
FairSpecSmallAll ==
    /\ InitSmall /\ [][Next]_vars
    /\ WF_vars(ContextStep)
    /\ WF_vars(QueueReaderStep)
    /\ WF_vars(ProducerStep)
    /\ \A l \in Libs : WF_vars(WalkerStep(l)) /\ WF_vars(ReadOrDoneStep(l))

\* fullReadDir alone
ReaderInit ==
    /\ RdrInit
    /\ fullRescan = FALSE
    /\ disk = 1
    /\ zip = ZipIdle
    /\ ScanIdle

SpecReader == ReaderInit /\ [][RdrNext]_vars

\* the goroutine running fullReadDir keeps being scheduled
FairSpecReader == SpecReader /\ WF_vars(RdrPass)

\* a call of the archiver on any small store
ArchiverInit ==
    /\ \E kind \in {"album", "playlist"}, id \in {"a", "b"},
          format \in {"raw", "mp3"}, store \in Stores :
            zip = ZipCall(kind, id, format, store)
    /\ cancelled = FALSE
    /\ fullRescan = FALSE
    /\ disk = 1
    /\ rdr = RdrIdle
    /\ ScanIdle

ZipNext == ZipLoad \/ ZipAdd \/ ZipClose

SpecArchiver == ArchiverInit /\ [][ZipNext]_vars

----------------------------------------------------------------------------
(* Properties of the tree walker and the producer *)

IsProperPrefix(p, q) ==
    /\ Len(p) < Len(q)
    /\ SubSeq(q, 1, Len(p)) = p

\* a call of walkFolder on dirPath has not returned yet
OnStack(l, dirPath) ==
    \E i \in 1..Len(walker[l].stack) : walker[l].stack[i].path = dirPath

SentPaths(l) == {hist.sent[l][i].path : i \in 1..Len(hist.sent[l])}

LoadedOf(l) == {r \in hist.loaded : r.folder.lib = l}

\* C1 (incrementality): without a full rescan, a loaded directory whose
\* modTime is not after its updTime is never sent on results, while every
\* child collected by a loaded directory is visited and every loaded directory
\* whose modTime is after its updTime has been sent once its walkFolder call
\* has returned.
C1_Incrementality ==
    ~fullRescan =>
        \A r \in hist.loaded :
            LET l == r.folder.lib
                dirPath == r.folder.path
            IN  /\ r.folder.modTime <= r.folder.updTime
                    => Clean(dirPath) \notin SentPaths(l)
                /\ ~OnStack(l, dirPath) =>
                    /\ \A c \in 1..Len(r.children) : r.children[c] \in hist.visited
                    /\ r.folder.modTime > r.folder.updTime
                        => Clean(dirPath) \in SentPaths(l)

\* the walk of library 2 is over: its root, loaded with modTime = updTime, was
\* not sent, and a descendant of it was
C1_Witness ==
    /\ ~fullRescan
    /\ ~cancelled
    /\ walker[2].pc = "done"
    /\ \E r \in hist.loaded :
        /\ r.folder.path = LibPath(2)
        /\ r.folder.modTime = r.folder.updTime
        /\ LibPath(2) \notin SentPaths(2)
        /\ \E q \in SentPaths(2) : IsProperPrefix(LibPath(2), q) /\ Len(q) = 3

\* C2 (forced rescan): with fullRescan, when the walk of a library is over
\* every counted folder has been sent exactly once on results, whatever its
\* modTime and updTime: the entries sent are as many as numFolders counts;
\* and without cancellation the producer has put as many when it moves on.
C2_ForcedRescan ==
    fullRescan =>
        \A l \in Libs :
            /\ walker[l].pc = "done" =>
                /\ Len(hist.sent[l]) = numFolders[l]
                /\ Cardinality(SentPaths(l)) = Len(hist.sent[l])
                /\ SentPaths(l) = {Clean(r.folder.path) : r \in LoadedOf(l)}
            /\ (~cancelled /\ walker[l].pc = "done" /\ rodOut[l].pc = "done") =>
                Len(SelectSeq(sink, LAMBDA e : e.lib = l)) = numFolders[l]

\* a full rescan of library 2 has sent its three folders, one of them with
\* modTime not after updTime
C2_Witness ==
    /\ fullRescan
    /\ ~cancelled
    /\ walker[2].pc = "done"
    /\ numFolders[2] = 3
    /\ \E i \in 1..Len(hist.sent[2]) :
          hist.sent[2][i].modTime <= hist.sent[2][i].updTime

\* C3 (post-order emission): no directory is sent on results, nor put, before
\* one of its descendants.
C3_PostOrder ==
    /\ \A l \in Libs : \A i, j \in 1..Len(hist.sent[l]) :
          i < j => ~IsProperPrefix(hist.sent[l][i].path, hist.sent[l][j].path)
    /\ \A i, j \in 1..Len(sink) :
          i < j => ~IsProperPrefix(sink[i].path, sink[j].path)

\* a directory, its child and its grandchild have all been put
C3_Witness ==
    ~cancelled /\ \E i, j, k \in 1..Len(sink) :
        /\ IsProperPrefix(sink[j].path, sink[i].path)
        /\ IsProperPrefix(sink[k].path, sink[j].path)

\* C4 (cancellation stops emission), as claimed: no walkFolder call starts a
\* send on results once the context is cancelled.
C4_NoSendAfterCancel == ~hist.lateSend

\* the listing loadDir makes of a directory read whole
FilesIn(dirPath) ==
    {nm \in Listing(dirPath) : FS[Join(Resolve(dirPath), nm)].kind = "file"}

MaxOf(S) == CHOOSE x \in S : \A y \in S : y <= x

WholeModTime(dirPath) ==
    MaxOf({FS[Resolve(dirPath)].mtime}
            \cup {FS[Join(Resolve(dirPath), nm)].mtime : nm \in FilesIn(dirPath)})

\* C5 (no partial emissions), as claimed: every entry sent on results holds
\* every classified file of its directory, and its modTime accounts for them.
C5_NoPartialEmission ==
    \A l \in Libs : \A i \in 1..Len(hist.sent[l]) :
        LET e == hist.sent[l][i] IN
        /\ {nm \in FilesIn(e.path) : IsAudioFile(nm)} \subseteq e.audioFiles
        /\ {nm \in FilesIn(e.path) : IsImageFile(nm)} \subseteq e.imageFiles
        /\ {nm \in FilesIn(e.path) : IsValidPlaylist(nm)}
              \subseteq {e.playlists[k] : k \in 1..Len(e.playlists)}
        /\ e.modTime >= WholeModTime(e.path)

\* C9 (library isolation on context failure): a library whose
\* newScannerContext failed is never walked and nothing of it is sent or put;
\* when the producer has returned (nil) from a run that was not cancelled,
\* every other library has been walked to its end and its outdated folders put.
C9_LibraryIsolation ==
    /\ \A l \in hist.failed :
        /\ walker[l].pc = "idle"
        /\ hist.sent[l] = <<>>
        /\ \A i \in 1..Len(sink) : sink[i].lib # l
    /\ prod.pc = "done" => prod.ret = Nil
    /\ (prod.pc = "done" /\ ~cancelled) =>
        \A l \in Libs \ hist.failed :
            /\ walker[l].pc = "done"
            /\ \A r \in LoadedOf(l) :
                  (fullRescan \/ r.folder.modTime > r.folder.updTime)
                    => \E i \in 1..Len(sink) : sink[i].lib = l
                                            /\ sink[i].path = Clean(r.folder.path)

\* the context of library 1 failed, library 2 was walked and folders of it put
C9_Witness ==
    /\ prod.pc = "done"
    /\ ~cancelled
    /\ hist.failed = {1}
    /\ walker[2].pc = "done"
    /\ \E i \in 1..Len(sink) : sink[i].lib = 2

\* the place of library l in the queue of scan contexts
QueuePos(l) == CHOOSE i \in 1..Len(LibOrder) : LibOrder[i] = l

\* C10 (one library at a time), as claimed: at most one walker goroutine is
\* running at any moment, no walk starts before the results of the walk before
\* it are closed and drained, and the entries put follow the queue order.
C10_OneLibraryAtATime ==
    /\ Cardinality({l \in Libs : walker[l].pc = "run"}) <= 1
    /\ ~hist.overlap
    /\ \A i, j \in 1..Len(sink) : i < j => QueuePos(sink[i].lib) <= QueuePos(sink[j].lib)

\* the walk of library l is over: its goroutine has closed results
WalkOver(l) == walker[l].pc = "done"

\* the directories loaded so far, and those loaded or sent
LoadedPaths == {r.folder.path : r \in hist.loaded}
SeenPaths == hist.visited \cup LoadedPaths \cup UNION {SentPaths(l) : l \in Libs}

\* entry name of directory base is a directory, or a link to one
IsSubdir(base, name) ==
    /\ Exists(Join(base, name))
    /\ FS[Resolve(Join(base, name))].kind = "dir"

\* the subdirectory is hidden, holds the marker file, or cannot be opened
Excluded(base, name) ==
    \/ HasPrefix(name, <<".">>) /\ ~HasPrefix(name, <<".", ".">>)
    \/ Exists(Join(Join(base, name), SkipScanFile))
    \/ FS[Resolve(Join(base, name))].openFails = {TRUE}

\* a directory on the way from the library root down to dirPath is excluded
UnderExcluded(dirPath) ==
    \E i \in 2..Len(dirPath) :
        /\ IsSubdir(SubSeq(dirPath, 1, i - 1), dirPath[i])
        /\ Excluded(SubSeq(dirPath, 1, i - 1), dirPath[i])

\* every read of the directory hands out its whole listing
ReadsWhole(dirPath) ==
    \A h \in FS[Resolve(dirPath)].handles :
        /\ h.errs = <<Nil>>
        /\ {h.chunks[1][i] : i \in 1..Len(h.chunks[1])} = Listing(dirPath)

\* C12 (ignore semantics): no directory that is, or lies below, a subdirectory
\* that is hidden (one leading dot), holds the marker file or cannot be opened
\* is ever visited, loaded, counted or sent; and in a run that is not
\* cancelled a loaded directory collects as a child every readable
\* subdirectory without marker file whose name starts with two dots, and
\* that child is walked before the directory returns.
C12_IgnoreSemantics ==
    /\ \A dirPath \in SeenPaths : ~UnderExcluded(dirPath)
    /\ \A l \in Libs : numFolders[l] = Cardinality(LoadedOf(l))
    /\ ~cancelled =>
        \A r \in hist.loaded : \A name \in Listing(r.folder.path) :
            LET base == r.folder.path
                sub == Join(base, name)
            IN  ( /\ HasPrefix(name, <<".", ".">>)
                  /\ IsSubdir(base, name)
                  /\ ReadsWhole(base)
                  /\ ~Exists(Join(sub, SkipScanFile))
                  /\ FS[Resolve(sub)].openFails = {FALSE} )
                => /\ \E c \in 1..Len(r.children) : r.children[c] = sub
                   /\ ~OnStack(r.folder.lib, base) => sub \in LoadedPaths \cup hist.visited

\* the root of library 1 on the second tree was loaded and walked: of its
\* six entries only ..D and E became children, and ..D was loaded
C12_Witness ==
    /\ disk = 2
    /\ ~cancelled
    /\ WalkOver(1)
    /\ \E r \in hist.loaded :
          /\ r.folder.path = LibPath(1)
          /\ r.children = <<Join(LibPath(1), nDots), Join(LibPath(1), nEmpty)>>
    /\ Join(LibPath(1), nDots) \in LoadedPaths

\* a call of walkFolder on dirPath is under way in some walker
Walking(dirPath) == \E l \in Libs : OnStack(l, dirPath)

\* loadDir failed on dirPath: walkFolder was called on it and has returned
\* without the directory having been loaded
LoadFailed(dirPath) ==
    /\ dirPath \in hist.visited
    /\ ~Walking(dirPath)
    /\ dirPath \notin LoadedPaths

\* the names of directory dirPath that loadDir did not collect as children
NotChildren(r) ==
    {nm \in Listing(r.folder.path) :
        \A c \in 1..Len(r.children) : r.children[c] # Join(r.folder.path, nm)}

\* C13 (fault isolation of a failed directory): a directory whose loadDir
\* failed is not counted, not sent and nothing below it is visited; in a run
\* that is not cancelled every directory that was loaded still has all its
\* children walked and is sent (unless it is skipped as up to date) once its
\* walkFolder call has returned, its entry showing no trace of its children,
\* failed or not; and when the producer has returned every library whose
\* context was built has been walked to the end.
C13_FaultIsolation ==
    /\ \A l \in Libs : numFolders[l] = Cardinality(LoadedOf(l))
    /\ \A dirPath \in hist.visited :
        LoadFailed(dirPath) =>
            /\ \A l \in Libs : Clean(dirPath) \notin SentPaths(l)
            /\ \A q \in SeenPaths : ~IsProperPrefix(dirPath, q)
    /\ ~cancelled =>
        /\ \A r \in hist.loaded :
            /\ ~Walking(r.folder.path) =>
                /\ \A c \in 1..Len(r.children) :
                      r.children[c] \in hist.visited /\ ~Walking(r.children[c])
                /\ ~skipFolder(r.folder)
                      <=> Clean(r.folder.path) \in SentPaths(r.folder.lib)
            /\ ReadsWhole(r.folder.path) =>
                /\ r.folder.audioFiles \cup r.folder.imageFiles
                      \cup {r.folder.playlists[k] : k \in 1..Len(r.folder.playlists)}
                        \subseteq NotChildren(r)
                /\ r.folder.modTime =
                      MaxOf({FS[Resolve(r.folder.path)].mtime} \cup
                            {FS[Join(Resolve(r.folder.path), nm)].mtime :
                                nm \in NotChildren(r)})
        /\ prod.pc = "done" =>
              \A l \in Libs : l \in hist.failed \/ WalkOver(l)

\* on the second tree loadDir failed on ..D of library 1, the link below it
\* was never visited, its sibling E and its parent were loaded and sent, and
\* library 2 was walked after it
C13_Witness ==
    /\ disk = 2
    /\ ~cancelled
    /\ prod.pc = "done"
    /\ LoadFailed(Join(LibPath(1), nDots))
    /\ {Join(LibPath(1), nEmpty), LibPath(1)} \subseteq SentPaths(1)
    /\ LibPath(2) \in LoadedPaths

\* C14 (modTime), as claimed: the modTime of a directory loaded from a whole
\* listing in a run that is not cancelled is the latest of its own
\* modification time and those of its entries that are not directories; no
\* subdirectory, recursed into, ignored or unreadable, raises it.
C14_ModTimeOfFilesOnly ==
    ~cancelled =>
        \A r \in hist.loaded :
            ReadsWhole(r.folder.path)
                => r.folder.modTime = WholeModTime(r.folder.path)

\* C15 (only non-directory entries are classified), as claimed: audioFiles,
\* imageFiles and playlists of a loaded directory never hold an entry that is
\* a directory or a link to one.
C15_NoDirectoryClassified ==
    \A r \in hist.loaded :
        \A nm \in r.folder.audioFiles \cup r.folder.imageFiles
                 \cup {r.folder.playlists[k] : k \in 1..Len(r.folder.playlists)} :
            ~IsSubdir(r.folder.path, nm)

\* the entries sent on the results of library l and not received yet
Pending(l) == Len(hist.sent[l]) - hist.rcvd[l]

\* the walker of library l is blocked in the send of line 88
Sending(l) == walker[l].pc = "run" /\ Top(l).pc = "send"

\* C16 (backpressure): at most one entry sent on the results of a library
\* has not been received, and there is one exactly while the walker is
\* blocked in its send; the walker blocked in a send takes no step, loads
\* and counts nothing, until the entry is received.
C16_Backpressure ==
    /\ [](\A l \in Libs :
            /\ Pending(l) \in {0, 1}
            /\ Pending(l) = 1 <=> Sending(l))
    /\ [][\A l \in Libs :
            Sending(l) =>
                /\ numFolders'[l] = numFolders[l]
                /\ hist'.sent[l] = hist.sent[l]
                /\ \/ walker'[l] = walker[l]
                   \/ hist'.rcvd[l] = hist.rcvd[l] + 1]_vars

\* two entries of library 2 have been received and the walker is blocked in
\* the send of a third
C16_Witness ==
    /\ ~cancelled
    /\ hist.rcvd[2] = 2
    /\ Sending(2)
    /\ Pending(2) = 1

RECURSIVE SumOf(_, _)
\* the sum of f over the set S
SumOf(f, S) ==
    IF S = {} THEN 0
    ELSE LET x == CHOOSE y \in S : TRUE IN f[x] + SumOf(f, S \ {x})

\* C17 (folder count), as claimed: the counter of a library counts exactly
\* the directories of it that were loaded, and once the producer has
\* returned the total it logged is the sum of the counters of the libraries,
\* no walker counting a folder after its counter was read.
C17_FolderCount ==
    /\ \A l \in Libs : numFolders[l] = Cardinality(LoadedOf(l))
    /\ prod.pc = "done" => prod.total = SumOf(numFolders, Libs)

IsPrefix(s, t) == Len(s) <= Len(t) /\ SubSeq(t, 1, Len(s)) = s

\* C18 (cancellation unwinds all in-flight work), as claimed: once the
\* context is cancelled every walker goroutine that was started returns in
\* the end and closes its results, none staying in the send of line 88; and
\* what was put stays put.
C18_CancelUnwinds ==
    /\ cancelled ~> (\A l \in Libs : walker[l].pc # "run")
    /\ [][IsPrefix(sink, sink')]_vars

\* the contexts of the libraries the goroutine has dealt with, without the
\* failed ones, in the configured order
QueuedSoFar ==
    SelectSeq(SubSeq(LibOrder, 1, ctxGo.next - 1), LAMBDA l : l \notin hist.failed)

\* C19 (the context goroutine never blocks on the queue): whenever the
\* goroutine is about to queue a context the queue has room for it, whatever
\* the consumer has read; the contexts queued so far are those of the
\* libraries dealt with, in the configured order and without the failed ones,
\* those not yet received being still in the queue; the queue is closed only
\* after the last library, after that the goroutine does nothing more; and,
\* the goroutine being scheduled, the queue is closed in the end whatever the
\* producer and its readers do or cease to do.
C19_QueueNeverBlocks ==
    /\ [](/\ ctxGo.next <= Len(LibOrder) => ENABLED CtxQueue
          /\ hist.queued = QueuedSoFar
          /\ Len(scanCtxChan) <= Len(hist.queued)
          /\ scanCtxChan = SubSeq(hist.queued,
                                  Len(hist.queued) - Len(scanCtxChan) + 1,
                                  Len(hist.queued))
          /\ ctxGo.closed => ctxGo.next = Len(LibOrder) + 1)
    /\ [][ctxGo.closed => ctxGo' = ctxGo /\ hist'.queued = hist.queued]_vars
    /\ <>(ctxGo.closed)

\* the context was cancelled before anything was read from the queue, and
\* the goroutine has queued both contexts and closed the queue
C19_Witness ==
    /\ cancelled
    /\ ctxGo.closed
    /\ scanCtxChan = LibOrder
    /\ prod.pc = "done"

\* C11 (stream termination), as claimed: in a run that is never cancelled and
\* whose consumer takes every entry, the producer returns in the end and the
\* walker of every library whose context was built has closed its results.
C11_StreamTerminates ==
    <>(\/ cancelled
       \/ /\ prod.pc = "done"
          /\ \A l \in Libs : l \in hist.failed \/ WalkOver(l))

----------------------------------------------------------------------------
(* Properties of the archiver *)

\* the ids of the media files in s, in order
IdsOf(s) == [k \in 1..Len(s) |-> s[k].id]

\* C20 (archiver error tolerance): addFileToZip is called on the media files
\* loaded, in their order, whatever the calls before returned; the zip writer
\* is closed only after the last of them and once; a call that got its media
\* files has attempted every one of them, closed the writer once and returns
\* the error of Close, nil if there was none; a call whose load failed
\* returns that error with nothing attempted, nothing written and no writer
\* closed.
C20_ArchiverTolerance ==
    /\ IsPrefix(zip.attempts, IdsOf(zip.mfs))
    /\ zip.closes <= 1
    /\ zip.closes = 1 => zip.attempts = IdsOf(zip.mfs)
    /\ zip.pc = "done" =>
          IF zip.ret = <<"load">>
          THEN zip.attempts = <<>> /\ zip.out = <<>> /\ zip.closes = 0
          ELSE /\ zip.attempts = IdsOf(zip.mfs)
               /\ zip.closes = 1
               /\ zip.ret \in {Nil, <<"close">>}
               /\ zip.ret = Nil
                    <=> (zip.out # <<>> /\ Last(zip.out).kind = "directory")

\* ZipAlbum on an album of two files: adding the first file failed, the
\* second was added whole all the same, and nil was returned
C20_Witness ==
    /\ zip.pc = "done"
    /\ zip.kind = "album"
    /\ zip.attempts = <<1, 2>>
    /\ zip.failed = {1}
    /\ zip.out[Len(zip.out) - 1].data = "whole"
    /\ zip.ret = Nil

----------------------------------------------------------------------------
(* Properties of the directory reader *)

\* the call of fullReadDir has returned, and not at a cancelled retry check
RdrReturned == rdr.st.returned /\ ~rdr.byCancel

\* how often name nm occurs in s
Count(s, nm) == Cardinality({i \in 1..Len(s) : s[i] = nm})

SameEntries(s, t) ==
    /\ Len(s) = Len(t)
    /\ \A i \in 1..Len(s) : Count(s, s[i]) = Count(t, s[i])

Ascending(s) == \A i, j \in 1..Len(s) : i < j => ~StrLess(s[j], s[i])

\* the handle answers every call with one and the same error
IdenticalErrors ==
    /\ rdr.hs.h.errs[1] # Nil
    /\ \A i \in 1..Len(rdr.hs.h.errs) : rdr.hs.h.errs[i] = rdr.hs.h.errs[1]

\* C6 (directory reader termination), as claimed: whatever ReadDir answers,
\* the call of fullReadDir eventually returns.
C6_ReaderTerminates == <>(rdr.st.returned)

C8_ReaderResult ==
    rdr.st.returned =>
        IF rdr.byCancel THEN rdr.st.result = <<>>
        ELSE /\ SameEntries(rdr.st.result, rdr.delivered)
             /\ Ascending(rdr.st.result)

\* a call that made two ReadDir calls, the first with an error and entries,
\* returned entries in another order than they were delivered in
C8_Witness ==
    /\ RdrReturned
    /\ rdr.calls = 2
    /\ HandleEntries(rdr.hs.h, 0) # <<>>
    /\ HandleErr(rdr.hs.h, 0) # Nil
    /\ rdr.st.result # rdr.delivered

====
